---- MODULE Spec2Model ----
(***************************************************************************)
(* AIlog: heuristic AI-authorship detection and the cross-process          *)
(* attribution-flag protocol between the pre-commit and post-commit        *)
(* phases.                                                                 *)
(*                                                                         *)
(* A text fragment is abstracted to the facts the analyzers' regular       *)
(* expressions and length tests read from it:                              *)
(*   len           text.length                                             *)
(*   kinds         which of PatternAnalyzer.aiPatterns occur in the text   *)
(*   quality       a line "// Xxxxxxxxxxx" (capital, > 10 chars) occurs    *)
(*   boilers       which BoilerplateAnalyzer patterns occur                *)
(*   structs       languages whose SyntaxAnalyzer patterns match           *)
(*   structsScript languages whose commitHookScript.js patterns match      *)
(***************************************************************************)
EXTENDS Integers, Sequences, FiniteSets, TLC

VARIABLES
    settings,   \* VS Code configuration section "ailog" (detection.*)
    config,     \* AIDetectionService.config
    log,        \* lines of .git/ai_activity.log
    patFresh,   \* per PatternAnalyzer instance: every aiPatterns regex has lastIndex = 0
    result,     \* the DetectionResult of the last detection call
    flag,       \* .git/AI_ATTRIBUTION_REQUESTED: presence and content
    flagBy,     \* history: the commit whose confirmation wrote the flag
    flagOps,    \* history: the last operations applied to the flag file
    state,      \* ExtensionManager.state
    phase,      \* where the current git commit stands
    cur,        \* number of git commit attempts started
    head,       \* the latest commit git log reports (0: none)
    pre,        \* the pre-commit run of the current attempt
    post,       \* the ailog.processCommit invocations, one per attempt
    db,         \* rows of the commits table
    confirmed,  \* history: attempts whose pre-commit prompt was answered yes
    workspace,  \* a workspace folder was open when the extension was activated
    modeOps,    \* history: the last commands applied to ExtensionManager.state
    procs,      \* the processes reading and rewriting the activity log
    completed,  \* history: the entries whose recordActivity call has returned
    lastRead,   \* history: what the last read of the log by a hook process saw
    written,    \* history: every entry recorded so far, in order
    purged,     \* history: the newest timestamp a cleanup has dropped (-1: none)
    prox,       \* history: the last analyzeTimeProximity call and its score
    pair        \* history: the last two detection calls made on the same input

detectVars == <<settings, config, log, patFresh, result>>

coordVars == <<flag, flagBy, state, phase, cur, head, pre, post, db, confirmed>>

auxVars == <<workspace, modeOps, procs, completed, lastRead, written, purged, prox, pair>>

vars == <<settings, config, log, patFresh, result,
          flag, flagBy, flagOps, state, phase, cur, head, pre, post, db, confirmed,
          workspace, modeOps, procs, completed, lastRead, written, purged, prox, pair>>

----------------------------------------------------------------------------
(* Bounds of the model *)

MaxLog == 1
MaxChanges == 2
MaxCommits == 2
MaxStaged == 2
MaxAsks == 1
MaxOps == 3
MaxEntries == 3
MaxRecords == 102
MaxProxLog == 2

(* Program constants *)

DefaultThreshold == 70
ChunkSizeThreshold == 100
ProximityWindow == 5000
ScriptProximityWindow == 300000
HookThreshold == 70
ScriptThreshold == 70
LogCap == 100
MaxAge == 86400000

----------------------------------------------------------------------------
(* Inputs *)

PatternKinds ==
    {"jsdoc", "line", "function", "const", "import", "interface", "type", "export"}

ScriptPatternKinds == PatternKinds \ {"line"}

BoilerplateNames ==
    {"React Component", "API Request Function", "Data Structure Class",
     "Express Route", "Test Case"}

ScriptBoilerplateNames ==
    {"React Component", "API Request Function", "Data Structure Class"}

Txt(l, k, q, b, s, ss) ==
    [len |-> l, kinds |-> k, quality |-> q, boilers |-> b,
     structs |-> s, structsScript |-> ss]

(* Sample fragments: a 70-character JSDoc + function + export fragment;    *)
(* a 100-character fragment scoring exactly 70 in a .js file without time  *)
(* proximity; a 201-character fragment with two pattern kinds; a           *)
(* 501-character fragment with every signal present.                       *)
Texts ==
    { Txt(70, {"jsdoc", "function", "export"}, FALSE, {}, {"javascript"}, {"javascript"}),
      Txt(100, {"function", "const", "import", "export"}, FALSE,
          {"Express Route"}, {"javascript"}, {"javascript"}),
      Txt(201, {"function", "const"}, FALSE, {}, {}, {}),
      Txt(501, {"jsdoc", "line", "function", "const", "export"}, TRUE,
          {"React Component"}, {"javascript"}, {"javascript"}) }

Files == {"a.js", "b.txt"}

FileExt == [f \in Files |-> IF f = "a.js" THEN "js" ELSE "txt"]

Commands == {"cursor.generate"}

Thresholds == {50, 70}

(* Values of Date.now(), in ms *)
Times == {0, 2000, 6000}

(* The moments at which an AI command is recorded *)
RecordTimes == {0, 2000}

Settings ==
    [confidenceThreshold : Thresholds,
     enableTimeProximity : BOOLEAN,
     enablePatternMatching : BOOLEAN]

Min(a, b) == IF a < b THEN a ELSE b

----------------------------------------------------------------------------
(* Analyzers *)

AnalyzeChunkSize(text) ==
    IF text.len > 500 THEN 30
    ELSE IF text.len > 200 THEN 20
    ELSE IF text.len > 100 THEN 10
    ELSE 0

languageMap ==
    [ext \in {"js", "jsx", "ts", "tsx", "py", "java", "c", "cpp", "h", "hpp",
              "cs", "go", "rs", "php", "rb", "swift", "kt", "scala"} |->
        CASE ext \in {"js", "jsx"} -> "javascript"
          [] ext \in {"ts", "tsx"} -> "typescript"
          [] ext = "py" -> "python"
          [] ext = "java" -> "java"
          [] ext \in {"c", "h"} -> "c"
          [] ext \in {"cpp", "hpp"} -> "cpp"
          [] ext = "cs" -> "csharp"
          [] ext = "go" -> "go"
          [] ext = "rs" -> "rust"
          [] ext = "php" -> "php"
          [] ext = "rb" -> "ruby"
          [] ext = "swift" -> "swift"
          [] ext = "kt" -> "kotlin"
          [] OTHER -> "scala"]

GetLanguageFromExtension(file) ==
    IF FileExt[file] \in DOMAIN languageMap THEN languageMap[FileExt[file]]
    ELSE "plaintext"

AnalyzeSyntacticCompleteness(text, languageId) ==
    IF languageId \in {"javascript", "typescript", "python"}
       /\ languageId \in text.structs
    THEN 25 ELSE 0

AnalyzeBoilerplate(text) ==
    IF text.boilers # {} THEN 20 ELSE 0

AnalyzeCommentQuality(text) ==
    (IF "jsdoc" \in text.kinds THEN 15 ELSE 0) + (IF text.quality THEN 10 ELSE 0)

(* hits: the number of aiPatterns whose test() returned true *)
AnalyzePatterns(hits) ==
    IF hits >= 4 THEN 25
    ELSE IF hits >= 3 THEN 20
    ELSE IF hits >= 2 THEN 15
    ELSE 0

(* aiPatterns are /g regexes kept in the analyzer instance: test() resumes *)
(* at lastIndex, so a pattern that matched in the previous call may miss   *)
(* an occurrence in this one; with every lastIndex = 0 each pattern that   *)
(* occurs in the text matches.                                             *)
PatternHits(fresh, text) ==
    IF fresh THEN {Cardinality(text.kinds)} ELSE 0..Cardinality(text.kinds)

(* activities.slice(-n) *)
KeepLast_First(activities, n) ==
    IF Len(activities) <= n THEN activities ELSE SubSeq(activities, 1, n)

(* recordActivity: activities.slice(-n) *)
KeepLast(activities, n) ==
    IF Len(activities) <= n THEN activities
    ELSE SubSeq(activities, Len(activities) - n + 1, Len(activities))

LoadActivityLog_SkipMalformed(lines) == SelectSeq(lines, LAMBDA l : l.ok)

(* loadActivityLog: one line JSON.parse rejects makes the catch return []   *)
LoadActivityLog(lines) ==
    IF \E i \in 1..Len(lines) : ~lines[i].ok THEN <<>> ELSE lines

AnalyzeTimeProximity_AnyFile(file, lines, t) ==
    LET activities == LoadActivityLog(lines)
        idx == {i \in 1..Len(activities) : (t - activities[i].timestamp) < ProximityWindow}
    IN  IF idx = {} THEN 0
        ELSE LET first == CHOOSE i \in idx : \A j \in idx : i <= j
                 timeDelta == t - activities[first].timestamp
             IN  IF timeDelta < 1000 THEN 50
                 ELSE IF timeDelta < 3000 THEN 40
                 ELSE 30

AnalyzeTimeProximity_Newest(file, lines, t) ==
    LET activities == LoadActivityLog(lines)
        idx == {i \in 1..Len(activities) :
                   /\ activities[i].file = file
                   /\ (t - activities[i].timestamp) < ProximityWindow}
    IN  IF idx = {} THEN 0
        ELSE LET last == CHOOSE i \in idx : \A j \in idx : j <= i
                 timeDelta == t - activities[last].timestamp
             IN  IF timeDelta < 1000 THEN 50
                 ELSE IF timeDelta < 3000 THEN 40
                 ELSE 30

(* analyzeTimeProximity: the first entry in file order for this file and    *)
(* inside the window decides the tier                                       *)
AnalyzeTimeProximity(file, lines, t) ==
    LET activities == LoadActivityLog(lines)
        idx == {i \in 1..Len(activities) :
                   /\ activities[i].file = file
                   /\ (t - activities[i].timestamp) < ProximityWindow}
    IN  IF idx = {} THEN 0
        ELSE LET first == CHOOSE i \in idx : \A j \in idx : i <= j
                 timeDelta == t - activities[first].timestamp
             IN  IF timeDelta < 1000 THEN 50
                 ELSE IF timeDelta < 3000 THEN 40
                 ELSE 30

----------------------------------------------------------------------------
(* AIDetectionService *)

AnalyzeTextChange(text, hits, file, cfg, lines, t) ==
    AnalyzeChunkSize(text)
    + AnalyzeSyntacticCompleteness(text, GetLanguageFromExtension(file))
    + AnalyzeBoilerplate(text)
    + AnalyzeCommentQuality(text)
    + (IF cfg.enableTimeProximity THEN AnalyzeTimeProximity(file, lines, t) ELSE 0)
    + (IF cfg.enablePatternMatching THEN AnalyzePatterns(hits) ELSE 0)

Analysed_All(text) == TRUE

(* A content change is analysed unless it is shorter than chunkSizeThreshold *)
Analysed(text) == ~(text.len < ChunkSizeThreshold)

RECURSIVE TotalScore(_, _, _, _, _, _)
TotalScore(changes, hits, file, cfg, lines, t) ==
    IF changes = <<>> THEN 0
    ELSE (IF Analysed(Head(changes))
          THEN AnalyzeTextChange(Head(changes), Head(hits), file, cfg, lines, t)
          ELSE 0)
         + TotalScore(Tail(changes), Tail(hits), file, cfg, lines, t)

Clamp_Unclamped(totalScore) == totalScore

Clamp(totalScore) == Min(totalScore, 100)

Classify_Strict(confidence, threshold) == confidence > threshold

Classify(confidence, threshold) == confidence >= threshold

DetectAI(changes, hits, file, cfg, lines, t) ==
    LET totalScore == TotalScore(changes, hits, file, cfg, lines, t)
        confidence == Clamp(totalScore)
    IN  [engine |-> "detectAI",
         overflow |-> totalScore > 100,
         confidence |-> confidence,
         isAiGenerated |-> Classify(confidence, cfg.confidenceThreshold)]

UpdateConfig(newConfig) ==
    [confidenceThreshold |-> newConfig.confidenceThreshold,
     enableTimeProximity |-> newConfig.enableTimeProximity,
     enablePatternMatching |-> newConfig.enablePatternMatching]

(* The hit counts the regex state allows for each change of an event.      *)
RECURSIVE HitsAllowed(_, _, _)
HitsAllowed(fresh, changes, cfg) ==
    IF changes = <<>> THEN {<<>>}
    ELSE IF Analysed(Head(changes)) /\ cfg.enablePatternMatching
         THEN UNION {{<<h>> \o rest : rest \in HitsAllowed(h = 0, Tail(changes), cfg)} :
                        h \in PatternHits(fresh, Head(changes))}
         ELSE {<<0>> \o rest : rest \in HitsAllowed(fresh, Tail(changes), cfg)}

(* The state the instance is left in.                                      *)
RECURSIVE FreshAfter(_, _, _, _)
FreshAfter(fresh, changes, hits, cfg) ==
    IF changes = <<>> THEN fresh
    ELSE IF Analysed(Head(changes)) /\ cfg.enablePatternMatching
         THEN FreshAfter(Head(hits) = 0, Tail(changes), Tail(hits), cfg)
         ELSE FreshAfter(fresh, Tail(changes), Tail(hits), cfg)

----------------------------------------------------------------------------
(* GitAnalysisService.detectAIInText *)

GitDetectAIInText(text, hits, file, lines, t) ==
    LET totalScore ==
            AnalyzeChunkSize(text)
            + AnalyzeSyntacticCompleteness(text, GetLanguageFromExtension(file))
            + AnalyzeBoilerplate(text)
            + AnalyzeCommentQuality(text)
            + AnalyzeTimeProximity(file, lines, t)
            + AnalyzePatterns(hits)
        confidence == Min(totalScore, 100)
    IN  [engine |-> "gitAnalysis",
         overflow |-> totalScore > 100,
         confidence |-> confidence,
         isAiGenerated |-> (confidence >= HookThreshold)]

----------------------------------------------------------------------------
(* commitHookScript.js *)

scriptLanguageMap ==
    [ext \in {"js", "jsx", "ts", "tsx", "py", "java", "c", "cpp"} |->
        CASE ext \in {"js", "jsx"} -> "javascript"
          [] ext \in {"ts", "tsx"} -> "typescript"
          [] ext = "py" -> "python"
          [] ext = "java" -> "java"
          [] ext = "c" -> "c"
          [] OTHER -> "cpp"]

GetLanguageFromPath(file) ==
    IF FileExt[file] \in DOMAIN scriptLanguageMap THEN scriptLanguageMap[FileExt[file]]
    ELSE "plaintext"

HasCompleteStructures(text, language) ==
    /\ language \in {"javascript", "typescript", "python"}
    /\ language \in text.structsScript

HasBoilerplatePatterns(text) == text.boilers \cap ScriptBoilerplateNames # {}

HasHighQualityComments(text) == "jsdoc" \in text.kinds

CheckTimeProximity(file, lines, t) ==
    IF \E i \in 1..Len(lines) : ~lines[i].ok THEN 0
    ELSE IF \E i \in 1..Len(lines) :
               /\ lines[i].file = file
               /\ (t - lines[i].timestamp) < ScriptProximityWindow
         THEN 40 ELSE 0

CheckAIPatterns(text) ==
    LET matches == Cardinality(text.kinds \cap ScriptPatternKinds)
    IN  IF matches >= 4 THEN 25
        ELSE IF matches >= 3 THEN 20
        ELSE IF matches >= 2 THEN 15
        ELSE 0

ScriptDetectAIInText(text, file, lines, t) ==
    LET score ==
            AnalyzeChunkSize(text)
            + (IF HasCompleteStructures(text, GetLanguageFromPath(file)) THEN 25 ELSE 0)
            + (IF HasBoilerplatePatterns(text) THEN 20 ELSE 0)
            + (IF HasHighQualityComments(text) THEN 15 ELSE 0)
            + CheckTimeProximity(file, lines, t)
            + CheckAIPatterns(text)
        confidence == Min(score, 100)
    IN  [engine |-> "hookScript",
         overflow |-> score > 100,
         confidence |-> confidence,
         isAiGenerated |-> (confidence >= ScriptThreshold)]

----------------------------------------------------------------------------
NoResult == [engine |-> "none", overflow |-> FALSE, confidence |-> 0, isAiGenerated |-> FALSE]

LastTimestamp(lines) == IF lines = <<>> THEN 0 ELSE lines[Len(lines)].timestamp

(* Date.now(): it never precedes a timestamp already in the log, and no     *)
(* comparison reads it while the log is empty                              *)
Clock(lines) ==
    IF lines = <<>> THEN {0} ELSE {t \in Times : t >= LastTimestamp(lines)}

(* new Date() when attempt n answers the prompt *)
PromptTime(n) == 2000 * n

(* The attribution flag file *)

NoFlag == [present |-> FALSE, content |-> 0]

(* InteractiveCommitCommand.setAIAttributionFlag: no workspace folder      *)
(* returns silently; a failing writeFileSync is caught and logged.         *)
SetAIAttributionFlag(f, t, hasWorkspace, writeOk) ==
    IF ~hasWorkspace THEN f
    ELSE IF writeOk THEN [present |-> TRUE, content |-> t]
    ELSE f

CheckAIAttributionFlag(f) == f.present

CleanupAIAttributionFlag_Unguarded(f, unlinkOk) ==
    IF f.present /\ unlinkOk THEN [flag |-> NoFlag, threw |-> FALSE]
    ELSE [flag |-> f, threw |-> TRUE]

(* GitCommitService.cleanupAIAttributionFlag: unlink only if the file      *)
(* exists; a failing unlinkSync is caught and logged.                      *)
CleanupAIAttributionFlag(f, unlinkOk) ==
    IF f.present
    THEN (IF unlinkOk THEN [flag |-> NoFlag, threw |-> FALSE]
                      ELSE [flag |-> f, threw |-> FALSE])
    ELSE [flag |-> f, threw |-> FALSE]

----------------------------------------------------------------------------
(* Staged changes of a commit attempt *)

(* the added lines of a file whose diff cannot be read are never seen *)
NoText == Txt(0, {}, FALSE, {}, {}, {})

StagedFiles ==
    [file : {"a.js"}, text : Texts, diff : {"ok"}]
    \cup {[file |-> "a.js", text |-> NoText, diff |-> "fail"]}

Staged == UNION {[1..n -> StagedFiles] : n \in 0..MaxStaged}

(* GitAnalysisService.analyzeStagedFile / detectAIInText over the staged   *)
(* files, in order, with the hit counts of the service's PatternAnalyzer.  *)
RECURSIVE StagedHitsAllowed(_, _)
StagedHitsAllowed(fresh, staged) ==
    IF staged = <<>> THEN {<<>>}
    ELSE IF Head(staged).diff = "ok"
         THEN UNION {{<<h>> \o rest : rest \in StagedHitsAllowed(h = 0, Tail(staged))} :
                        h \in PatternHits(fresh, Head(staged).text)}
         ELSE {<<0>> \o rest : rest \in StagedHitsAllowed(fresh, Tail(staged))}

RECURSIVE StagedFreshAfter(_, _, _)
StagedFreshAfter(fresh, staged, hits) ==
    IF staged = <<>> THEN fresh
    ELSE IF Head(staged).diff = "ok"
         THEN StagedFreshAfter(Head(hits) = 0, Tail(staged), Tail(hits))
         ELSE StagedFreshAfter(fresh, Tail(staged), Tail(hits))

AnalyzeStagedFile(sf, hits, lines, t) ==
    IF sf.diff = "ok" THEN GitDetectAIInText(sf.text, hits, sf.file, lines, t)
    ELSE NoResult

(* GitAnalysisService.analyzeCommitChanges: hasAiContent *)
AnalyzeCommitChanges(statusOk, staged, hits, lines, t) ==
    /\ statusOk
    /\ \E i \in 1..Len(staged) :
          /\ staged[i].diff = "ok"
          /\ AnalyzeStagedFile(staged[i], hits[i], lines, t).isAiGenerated

(* commitHookScript.js analyzeFile / analyzeStagedChanges: hasAiContent *)
AnalyzeFile(sf, lines, t) ==
    IF sf.diff = "ok" THEN ScriptDetectAIInText(sf.text, sf.file, lines, t)
    ELSE NoResult

AnalyzeStagedChanges(listOk, staged, lines, t) ==
    /\ listOk
    /\ \E i \in 1..Len(staged) : AnalyzeFile(staged[i], lines, t).isAiGenerated

(* history: some staged file's computed confidence reaches the configured  *)
(* threshold                                                               *)
ReachesConfigured(confs, threshold) ==
    \E i \in 1..Len(confs) : confs[i] >= threshold

----------------------------------------------------------------------------
(* The commit protocol *)

Attempts == 1..MaxCommits

IdlePre ==
    [pc |-> "idle", commit |-> 0, path |-> "none", hasAiContent |-> FALSE,
     reached |-> FALSE, prompted |-> FALSE, asks |-> 0, answer |-> "none",
     message |-> "none", exit |-> -1, flagAtStart |-> FALSE, flagAtEnd |-> FALSE,
     wrote |-> "none"]

NoPost ==
    [pc |-> "none", hash |-> 0, isAiGenerated |-> FALSE, should |-> FALSE, sawBy |-> 0,
     flagAtStart |-> FALSE, flagAtReturn |-> FALSE, outcome |-> "none",
     handedAi |-> FALSE, threw |-> FALSE, execThrew |-> FALSE,
     overrideAfter |-> FALSE, dup |-> FALSE, setDuring |-> FALSE]

InitCoord ==
    /\ flag = NoFlag
    /\ flagBy = 0
    /\ state = [isAiGenerated |-> FALSE, enableRealtimeDetection |-> FALSE]
    /\ phase = "idle"
    /\ cur = 0
    /\ head = 0
    /\ pre = IdlePre
    /\ post = [p \in Attempts |-> NoPost]
    /\ db = {}
    /\ confirmed = {}

Procs == 1..2

NoProc == [pc |-> "idle", op |-> "none", entry |-> 0, old |-> <<>>, buf |-> <<>>]

NoWhole == {<<>>}

NoRead == [seen |-> <<>>, whole |-> NoWhole, rewriting |-> FALSE]

NoProx == [file |-> "none", now |-> 0, entries |-> <<>>, score |-> 0]

NoInput == [text |-> NoText, hits |-> 0, file |-> "none", lines |-> <<>>, now |-> 0,
            broken |-> FALSE, changes |-> <<>>, allHits |-> <<>>]

NoPair == [kind |-> "none", left |-> NoResult, right |-> NoResult, input |-> NoInput]

InitAux ==
    /\ workspace = TRUE
    /\ modeOps = <<>>
    /\ procs = [p \in Procs |-> NoProc]
    /\ completed = {}
    /\ lastRead = NoRead
    /\ written = <<>>
    /\ purged = -1
    /\ prox = NoProx
    /\ pair = NoPair

(* ExtensionManager.initializeServices creates the git services only if a  *)
(* workspace folder is open at activation.                                 *)
Init ==
    /\ settings \in {s \in Settings : s.enableTimeProximity /\ s.enablePatternMatching}
    /\ config = UpdateConfig(settings)
    /\ log = <<>>
    /\ patFresh = [ed |-> TRUE, git |-> TRUE]
    /\ result = NoResult
    /\ flagOps = <<>>
    /\ InitCoord
    /\ workspace \in BOOLEAN
    /\ modeOps = <<>>
    /\ procs = [p \in Procs |-> NoProc]
    /\ completed = {}
    /\ lastRead = NoRead
    /\ written = <<>>
    /\ purged = -1
    /\ prox = NoProx
    /\ pair = NoPair

(* the invocations that returned are gone when the next attempt starts *)
Returned(ps) == [p \in Attempts |-> IF ps[p].pc = "done" THEN NoPost ELSE ps[p]]

(* git commit starts and runs .git/hooks/pre-commit: `code` on the PATH    *)
(* dispatches ailog.interactiveCommitCheck, otherwise the node script runs *)
(* if it exists, otherwise the hook prints a warning and exits 0.          *)
StartEditor ==
    /\ phase = "idle"
    /\ cur < MaxCommits
    /\ cur' = cur + 1
    /\ phase' = "pre"
    /\ pre' = [IdlePre EXCEPT !.pc = "analyze", !.commit = cur + 1, !.path = "editor",
                              !.exit = 0, !.flagAtStart = flag.present]
    /\ post' = Returned(post)
    /\ UNCHANGED <<flag, flagBy, state, head, db, confirmed>>
    /\ UNCHANGED <<detectVars, flagOps, auxVars>>

StartUnavailable ==
    /\ phase = "idle"
    /\ cur < MaxCommits
    /\ cur' = cur + 1
    /\ phase' = "ready"
    /\ pre' = [IdlePre EXCEPT !.pc = "done", !.commit = cur + 1, !.path = "none",
                              !.exit = 0, !.flagAtStart = flag.present,
                              !.flagAtEnd = flag.present]
    /\ post' = Returned(post)
    /\ UNCHANGED <<flag, flagBy, state, head, db, confirmed>>
    /\ UNCHANGED <<detectVars, flagOps, auxVars>>

(* InteractiveCommitCommand.execute up to the dialog *)
EditorAnalyze ==
    /\ phase = "pre" /\ pre.path = "editor" /\ pre.pc = "analyze"
    /\ workspace
    /\ \E statusOk \in BOOLEAN, staged \in Staged, t \in Clock(log) :
         /\ ~statusOk => staged = <<>>
         /\ \E hits \in StagedHitsAllowed(patFresh.git, staged) :
              LET hasAiContent == AnalyzeCommitChanges(statusOk, staged, hits, log, t)
                  confs == [i \in 1..Len(staged) |->
                              IF staged[i].diff = "ok"
                              THEN AnalyzeStagedFile(staged[i], hits[i], log, t).confidence
                              ELSE 0]
                  reached == ReachesConfigured(confs, settings.confidenceThreshold)
              IN  /\ patFresh' = [patFresh EXCEPT
                                    !.git = StagedFreshAfter(patFresh.git, staged, hits)]
                  /\ IF hasAiContent
                     THEN /\ pre' = [pre EXCEPT !.pc = "prompt", !.hasAiContent = TRUE,
                                                !.reached = reached, !.prompted = TRUE,
                                                !.asks = 1]
                          /\ phase' = phase
                     ELSE /\ pre' = [pre EXCEPT !.pc = "done", !.reached = reached,
                                                !.message = "noAiDetected",
                                                !.flagAtEnd = flag.present]
                          /\ phase' = "ready"
    /\ UNCHANGED <<flag, flagBy, state, cur, head, post, db, confirmed>>
    /\ UNCHANGED <<settings, config, log, result, flagOps, auxVars>>

(* NotificationService.showCommitAttributionDialog resolves, and the rest  *)
(* of InteractiveCommitCommand.execute                                     *)
(* choice viewDetails: the dialog awaits showReportDocument *)
EditorViewDetails ==
    /\ phase = "pre" /\ pre.path = "editor" /\ pre.pc = "prompt"
    /\ pre' = [pre EXCEPT !.pc = "report"]
    /\ UNCHANGED <<flag, flagBy, state, phase, cur, head, post, db, confirmed>>
    /\ UNCHANGED <<detectVars, flagOps, auxVars>>

(* the report is shown and showCommitAttributionDialog calls itself: the    *)
(* prompt is asked again, any number of times (asks counts up to           *)
(* MaxAsks + 1 and stays there)                                            *)
EditorAskAgain ==
    /\ phase = "pre" /\ pre.path = "editor" /\ pre.pc = "report"
    /\ pre' = [pre EXCEPT !.pc = "prompt", !.asks = Min(pre.asks + 1, MaxAsks + 1)]
    /\ UNCHANGED <<flag, flagBy, state, phase, cur, head, post, db, confirmed>>
    /\ UNCHANGED <<detectVars, flagOps, auxVars>>

EditorYes ==
    /\ phase = "pre" /\ pre.path = "editor" /\ pre.pc = "prompt"
    /\ \E hasWorkspace \in BOOLEAN, writeOk \in BOOLEAN :
         LET f == SetAIAttributionFlag(flag, PromptTime(pre.commit), hasWorkspace, writeOk)
         IN  /\ flag' = f
             /\ flagBy' = IF hasWorkspace /\ writeOk THEN pre.commit ELSE flagBy
             /\ pre' = [pre EXCEPT !.pc = "done", !.answer = "yes",
                                   !.message = "aiAttributionSet",
                                   !.flagAtEnd = f.present,
                                   !.wrote = IF ~hasWorkspace THEN "skipped"
                                             ELSE IF writeOk THEN "ok" ELSE "failed"]
    /\ confirmed' = confirmed \cup {pre.commit}
    /\ phase' = "ready"
    /\ UNCHANGED <<state, cur, head, post, db>>
    /\ UNCHANGED <<detectVars, flagOps, auxVars>>

EditorNo ==
    /\ phase = "pre" /\ pre.path = "editor" /\ pre.pc = "prompt"
    /\ \E choice \in {"no", "dismissed"} :
         pre' = [pre EXCEPT !.pc = "done", !.answer = choice,
                            !.message = "aiAttributionSkipped",
                            !.flagAtEnd = flag.present]
    /\ phase' = "ready"
    /\ UNCHANGED <<flag, flagBy, state, cur, head, post, db, confirmed>>
    /\ UNCHANGED <<detectVars, flagOps, auxVars>>

(* without a workspace folder gitAnalysisService is undefined: the call    *)
(* throws inside execute's try and the catch shows an error                *)
EditorNoService ==
    /\ phase = "pre" /\ pre.path = "editor" /\ pre.pc = "analyze"
    /\ ~workspace
    /\ pre' = [pre EXCEPT !.pc = "done", !.answer = "error",
                          !.message = "commitCheckFailed",
                          !.flagAtEnd = flag.present]
    /\ phase' = "ready"
    /\ UNCHANGED <<flag, flagBy, state, cur, head, post, db, confirmed>>
    /\ UNCHANGED <<detectVars, flagOps, auxVars>>

(* the dialog or the report rejects: execute's catch shows an error *)
EditorFails ==
    /\ phase = "pre" /\ pre.path = "editor" /\ pre.pc \in {"prompt", "report"}
    /\ pre' = [pre EXCEPT !.pc = "done", !.answer = "error",
                          !.message = "commitCheckFailed",
                          !.flagAtEnd = flag.present]
    /\ phase' = "ready"
    /\ UNCHANGED <<flag, flagBy, state, cur, head, post, db, confirmed>>
    /\ UNCHANGED <<detectVars, flagOps, auxVars>>

(* commitHookScript.js main(), up to askUser; an exception leaves through  *)
(* main().catch, which exits 1.                                            *)
ScriptExit(threw) == IF threw THEN 1 ELSE 0

StartScript ==
    /\ phase = "idle"
    /\ cur < MaxCommits
    /\ cur' = cur + 1
    /\ LET base == [IdlePre EXCEPT !.commit = cur + 1, !.path = "script",
                                   !.flagAtStart = flag.present]
       IN  IF flag.present
           THEN \E unlinkOk \in BOOLEAN :
                  /\ flag' = IF unlinkOk THEN NoFlag ELSE flag
                  /\ flagBy' = IF unlinkOk THEN 0 ELSE flagBy
                  /\ pre' = [base EXCEPT !.pc = "done", !.exit = ScriptExit(~unlinkOk),
                                         !.flagAtEnd = ~unlinkOk]
                  /\ phase' = "ready"
           ELSE \E listOk \in BOOLEAN, staged \in Staged, t \in Clock(log) :
                  /\ ~listOk => staged = <<>>
                  /\ LET hasAiContent == AnalyzeStagedChanges(listOk, staged, log, t)
                         confs == [i \in 1..Len(staged) |-> AnalyzeFile(staged[i], log, t).confidence]
                         reached == ReachesConfigured(confs, settings.confidenceThreshold)
                     IN  IF hasAiContent
                         THEN /\ pre' = [base EXCEPT !.pc = "prompt", !.hasAiContent = TRUE,
                                                     !.reached = reached, !.prompted = TRUE,
                                                     !.asks = 1]
                              /\ phase' = "pre"
                         ELSE /\ pre' = [base EXCEPT !.pc = "done", !.reached = reached,
                                                     !.exit = 0, !.flagAtEnd = FALSE]
                              /\ phase' = "ready"
                  /\ UNCHANGED <<flag, flagBy>>
    /\ post' = Returned(post)
    /\ UNCHANGED <<state, head, db, confirmed>>
    /\ UNCHANGED <<detectVars, flagOps, auxVars>>

(* askUser resolves *)
ScriptAnswer ==
    /\ phase = "pre" /\ pre.path = "script" /\ pre.pc = "prompt"
    /\ \E answer \in {"y", "yes", "n", ""}, writeOk \in BOOLEAN :
         IF answer = "y" \/ answer = "yes"
         THEN /\ flag' = IF writeOk THEN [present |-> TRUE, content |-> PromptTime(pre.commit)]
                                    ELSE flag
              /\ flagBy' = IF writeOk THEN pre.commit ELSE flagBy
              /\ pre' = [pre EXCEPT !.pc = "done", !.answer = "yes",
                                    !.exit = ScriptExit(~writeOk),
                                    !.message = IF writeOk THEN "attributionAdded"
                                                ELSE "scriptError",
                                    !.flagAtEnd = (writeOk \/ flag.present),
                                    !.wrote = IF writeOk THEN "ok" ELSE "failed"]
              /\ confirmed' = confirmed \cup {pre.commit}
         ELSE /\ pre' = [pre EXCEPT !.pc = "done", !.answer = "no", !.exit = 0,
                                    !.flagAtEnd = flag.present]
              /\ UNCHANGED <<flag, flagBy, confirmed>>
    /\ phase' = "ready"
    /\ UNCHANGED <<state, cur, head, post, db>>
    /\ UNCHANGED <<detectVars, flagOps, auxVars>>

(* git creates the commit (only if the pre-commit hook exited 0); the hook *)
(* run is over                                                             *)
GitCommit ==
    /\ phase = "ready"
    /\ pre.exit = 0
    /\ head' = pre.commit
    /\ phase' = "committed"
    /\ pre' = IdlePre
    /\ UNCHANGED <<flag, flagBy, state, cur, post, db, confirmed>>
    /\ UNCHANGED <<detectVars, flagOps, auxVars>>

(* the commit is abandoned after the pre-commit hook (blocked by the hook, *)
(* empty message, failing commit-msg hook)                                 *)
AbortCommit ==
    /\ phase = "ready"
    /\ phase' = "idle"
    /\ pre' = IdlePre
    /\ UNCHANGED <<flag, flagBy, state, cur, head, post, db, confirmed>>
    /\ UNCHANGED <<detectVars, flagOps, auxVars>>

(* the post-commit hook cannot reach the editor: `exec code` fails *)
PostUnavailable ==
    /\ phase = "committed"
    /\ phase' = "idle"
    /\ UNCHANGED <<flag, flagBy, state, cur, head, pre, post, db, confirmed>>
    /\ UNCHANGED <<detectVars, flagOps, auxVars>>

----------------------------------------------------------------------------
(* ProcessCommitCommand.execute and GitCommitService.processCommit *)

ProcessCommitThrows_NoCatch(stepFailed) == stepFailed

(* processCommit wraps its body in try/catch: a failing step is logged *)
ProcessCommitThrows(stepFailed) == FALSE

(* execute wraps the call in try/catch *)
ExecuteThrows(innerThrew) == FALSE

OverrideAfter_Keep(st, threw) == st

(* execute: updateState runs after the awaited call unless the call threw *)
OverrideAfter(st, threw) ==
    IF threw THEN st ELSE [st EXCEPT !.isAiGenerated = FALSE]

(* processCommit returns; execute resets the override unless the call threw *)
Return(p, rec, outcome, stepFailed, f) ==
    LET threw == ProcessCommitThrows(stepFailed)
    IN  /\ post' = [post EXCEPT ![p] =
                      [rec EXCEPT !.pc = "done", !.outcome = outcome,
                                  !.flagAtReturn = f.present,
                                  !.threw = threw,
                                  !.execThrew = ExecuteThrows(threw),
                                  !.overrideAfter = OverrideAfter(state, threw).isAiGenerated,
                                  !.setDuring = (state.isAiGenerated /\ ~rec.isAiGenerated)]]
        /\ state' = OverrideAfter(state, threw)
        /\ phase' = IF phase = "post" /\ cur = p THEN "idle" ELSE phase

(* without a workspace folder gitCommitService is undefined: the call      *)
(* throws inside execute's try, before the reset, and the catch logs it    *)
PostNoService ==
    /\ phase = "committed"
    /\ post[cur].pc = "none"
    /\ ~workspace
    /\ post' = [post EXCEPT ![cur] =
                  [NoPost EXCEPT !.pc = "done", !.isAiGenerated = state.isAiGenerated,
                                 !.flagAtStart = flag.present,
                                 !.flagAtReturn = flag.present,
                                 !.outcome = "noservice",
                                 !.execThrew = ExecuteThrows(TRUE),
                                 !.overrideAfter = OverrideAfter(state, TRUE).isAiGenerated]]
    /\ state' = OverrideAfter(state, TRUE)
    /\ phase' = "idle"
    /\ UNCHANGED <<flag, flagBy, cur, head, pre, db, confirmed>>
    /\ UNCHANGED <<detectVars, flagOps, auxVars>>

(* execute reads the state and calls processCommit, which awaits git.log *)
PostStart ==
    /\ phase = "committed"
    /\ post[cur].pc = "none"
    /\ workspace
    /\ post' = [post EXCEPT ![cur] =
                  [NoPost EXCEPT !.pc = "log", !.isAiGenerated = state.isAiGenerated,
                                 !.flagAtStart = flag.present]]
    /\ phase' = "post"
    /\ UNCHANGED <<flag, flagBy, state, cur, head, pre, db, confirmed>>
    /\ UNCHANGED <<detectVars, flagOps, auxVars>>

PostLog(p) ==
    /\ post[p].pc = "log"
    /\ \E r \in {"ok", "fail", "empty"} :
         CASE r = "ok" ->
                /\ post' = [post EXCEPT ![p].pc = "branch", ![p].hash = head]
                /\ UNCHANGED <<state, phase>>
           [] r = "fail" -> Return(p, post[p], "logged", TRUE, flag)
           [] OTHER -> Return(p, post[p], "nocommit", FALSE, flag)
    /\ UNCHANGED <<flag, flagBy, cur, head, pre, db, confirmed>>
    /\ UNCHANGED <<detectVars, flagOps, auxVars>>

PostBranch(p) ==
    /\ post[p].pc = "branch"
    /\ \E ok \in BOOLEAN :
         IF ok THEN /\ post' = [post EXCEPT ![p].pc = "diff"]
                    /\ UNCHANGED <<state, phase>>
         ELSE Return(p, post[p], "logged", TRUE, flag)
    /\ UNCHANGED <<flag, flagBy, cur, head, pre, db, confirmed>>
    /\ UNCHANGED <<detectVars, flagOps, auxVars>>

(* diffSummary(HEAD^..HEAD) resolves; the flag is checked, the record is   *)
(* built and insertCommit is awaited.                                      *)
PostDiff(p) ==
    /\ post[p].pc = "diff"
    /\ \E ok \in BOOLEAN :
         IF ok
         THEN LET shouldAddAIAttribution == CheckAIAttributionFlag(flag)
              IN  /\ post' = [post EXCEPT
                                ![p].pc = "insert",
                                ![p].should = shouldAddAIAttribution,
                                ![p].sawBy = IF shouldAddAIAttribution THEN flagBy ELSE 0]
                  /\ UNCHANGED <<state, phase>>
         ELSE Return(p, post[p], "logged", TRUE, flag)
    /\ UNCHANGED <<flag, flagBy, cur, head, pre, db, confirmed>>
    /\ UNCHANGED <<detectVars, flagOps, auxVars>>

CommitData_FlagOnly(rec) ==
    [commit_hash |-> rec.hash,
     is_ai_generated |-> rec.should,
     viaFlag |-> rec.should,
     by |-> rec.sawBy]

(* processCommit: the commitData handed to insertCommit *)
CommitData(rec) ==
    [commit_hash |-> rec.hash,
     is_ai_generated |-> (rec.isAiGenerated \/ rec.should),
     viaFlag |-> rec.should,
     by |-> rec.sawBy]

(* commit_hash is UNIQUE: a second row with the same hash is rejected *)
InsertCommit(rows, data, dbOk) ==
    LET duplicate == \E r \in rows : r.commit_hash = data.commit_hash
    IN  IF dbOk /\ ~duplicate
        THEN [rows |-> rows \cup {data}, rejected |-> FALSE, duplicate |-> FALSE]
        ELSE [rows |-> rows, rejected |-> TRUE, duplicate |-> duplicate]

(* insertCommit settles; on success the flag is cleaned up if it was seen *)
PostInsert(p) ==
    /\ post[p].pc = "insert"
    /\ \E dbOk \in BOOLEAN, unlinkOk \in BOOLEAN :
         LET ins == InsertCommit(db, CommitData(post[p]), dbOk)
             cl == CleanupAIAttributionFlag(flag, unlinkOk)
         IN  IF ins.rejected
             THEN /\ Return(p, [post[p] EXCEPT !.dup = ins.duplicate], "logged", TRUE, flag)
                  /\ UNCHANGED <<flag, flagBy, db>>
             ELSE /\ db' = ins.rows
                  /\ flag' = IF post[p].should THEN cl.flag ELSE flag
                  /\ flagBy' = IF post[p].should /\ ~cl.flag.present THEN 0 ELSE flagBy
                  /\ Return(p, [post[p] EXCEPT !.handedAi = CommitData(post[p]).is_ai_generated],
                            "recorded", FALSE,
                            IF post[p].should THEN cl.flag ELSE flag)
    /\ UNCHANGED <<cur, head, pre, confirmed>>
    /\ UNCHANGED <<detectVars, flagOps, auxVars>>

AIToggleCommand_Plain(st) == [st EXCEPT !.isAiGenerated = ~st.isAiGenerated]

(* AIToggleCommand.execute: the updater passed to updateState *)
AIToggleCommand(st) ==
    IF st.enableRealtimeDetection
    THEN [enableRealtimeDetection |-> FALSE, isAiGenerated |-> FALSE]
    ELSE [st EXCEPT !.isAiGenerated = ~st.isAiGenerated]

(* AIToggleCommand.execute *)
AIToggle ==
    /\ state' = AIToggleCommand(state)
    /\ UNCHANGED <<flag, flagBy, phase, cur, head, pre, post, db, confirmed>>
    /\ UNCHANGED <<detectVars, flagOps, auxVars>>

Next ==
    \/ StartEditor
    \/ StartUnavailable
    \/ StartScript
    \/ EditorAnalyze
    \/ EditorViewDetails
    \/ EditorAskAgain
    \/ EditorYes
    \/ EditorNo
    \/ EditorNoService
    \/ EditorFails
    \/ ScriptAnswer
    \/ GitCommit
    \/ AbortCommit
    \/ PostUnavailable
    \/ PostNoService
    \/ PostStart
    \/ \E p \in Attempts : PostLog(p)
    \/ \E p \in Attempts : PostBranch(p)
    \/ \E p \in Attempts : PostDiff(p)
    \/ \E p \in Attempts : PostInsert(p)
    \/ AIToggle

Spec == Init /\ [][Next]_vars

(* the modal dialog and the report document resolve eventually; which      *)
(* button the user presses is not constrained                              *)
EditorDialogResolves ==
    \/ EditorViewDetails
    \/ EditorYes
    \/ EditorNo
    \/ EditorFails

SpecLive ==
    /\ Spec
    /\ WF_vars(EditorDialogResolves)
    /\ WF_vars(EditorAskAgain)

(* `exec code --command ailog.processCommit` only dispatches the command:  *)
(* the hook process ends, and the next commit may start, while             *)
(* processCommit is still awaiting.                                        *)
HookReturns ==
    /\ phase = "post"
    /\ post[cur].pc # "done"
    /\ phase' = "idle"
    /\ UNCHANGED <<flag, flagBy, state, cur, head, pre, post, db, confirmed>>
    /\ UNCHANGED <<detectVars, flagOps, auxVars>>

NextRace ==
    \/ Next
    \/ HookReturns

SpecRace == Init /\ [][NextRace]_vars

----------------------------------------------------------------------------
(* The detection engine as a state machine: SpecDetect *)

DefaultSettings ==
    [confidenceThreshold |-> DefaultThreshold,
     enableTimeProximity |-> TRUE,
     enablePatternMatching |-> TRUE]

InitDetect ==
    /\ settings = DefaultSettings
    /\ config = UpdateConfig(DefaultSettings)
    /\ log = <<>>
    /\ patFresh = [ed |-> TRUE, git |-> TRUE]
    /\ result = NoResult
    /\ InitCoord
    /\ flagOps = <<>>
    /\ InitAux

(* The user edits the "ailog" settings; ConfigService fires                *)
(* onDidChangeConfiguration and AIDetectionService.updateConfig runs.      *)
(* A result is kept only while the configuration it was made under stands. *)
ChangeConfiguration ==
    \E s \in Settings :
        /\ s # settings
        /\ settings' = s
        /\ config' = UpdateConfig(s)
        /\ result' = NoResult
        /\ UNCHANGED <<log, patFresh, flagOps, auxVars>>
        /\ UNCHANGED coordVars

(* TimeProximityAnalyzer.recordActivity: load, push, keep the last 100, save *)
RecordActivity ==
    \E f \in Files, c \in Commands, t \in RecordTimes :
        /\ Len(log) < MaxLog
        /\ t >= LastTimestamp(log)
        /\ log' = KeepLast(Append(LoadActivityLog(log),
                                  [ok |-> TRUE, file |-> f, timestamp |-> t, command |-> c]),
                           LogCap)
        /\ UNCHANGED <<settings, config, patFresh, result, flagOps, auxVars>>
        /\ UNCHANGED coordVars

Events == UNION {[1..n -> Texts] : n \in 0..MaxChanges}

OnDetectAI ==
    \E changes \in Events, f \in Files, t \in Clock(log) :
        \E hits \in HitsAllowed(patFresh.ed, changes, config) :
            /\ result' = DetectAI(changes, hits, f, config, log, t)
            /\ patFresh' = [patFresh EXCEPT !.ed = FreshAfter(patFresh.ed, changes, hits, config)]
            /\ UNCHANGED <<settings, config, log, flagOps, auxVars>>
            /\ UNCHANGED coordVars

OnGitDetectAIInText ==
    \E text \in Texts, f \in Files, t \in Clock(log) :
        \E hits \in PatternHits(patFresh.git, text) :
            /\ result' = GitDetectAIInText(text, hits, f, log, t)
            /\ patFresh' = [patFresh EXCEPT !.git = (hits = 0)]
            /\ UNCHANGED <<settings, config, log, flagOps, auxVars>>
            /\ UNCHANGED coordVars

OnScriptDetectAIInText ==
    \E text \in Texts, f \in Files, t \in Clock(log) :
        /\ result' = ScriptDetectAIInText(text, f, log, t)
        /\ UNCHANGED <<settings, config, log, patFresh, flagOps, auxVars>>
        /\ UNCHANGED coordVars

NextDetect ==
    \/ ChangeConfiguration
    \/ RecordActivity
    \/ OnDetectAI
    \/ OnGitDetectAIInText
    \/ OnScriptDetectAIInText

SpecDetect == InitDetect /\ [][NextDetect]_vars

----------------------------------------------------------------------------
(* The flag operations on their own: SpecFlag *)

Op(name, before, after, ok, seen, threw) ==
    [op |-> name, before |-> before, after |-> after, ok |-> ok,
     seen |-> seen, threw |-> threw]

Push(ops, o) ==
    IF Len(ops) < MaxOps THEN Append(ops, o) ELSE Append(Tail(ops), o)

FlagWrite ==
    \E t \in Times, writeOk \in BOOLEAN :
        /\ t >= flag.content
        /\ flag' = SetAIAttributionFlag(flag, t, TRUE, writeOk)
        /\ flagOps' = Push(flagOps, Op("write", flag, flag', writeOk, FALSE, FALSE))
        /\ UNCHANGED <<flagBy, state, phase, cur, head, pre, post, db, confirmed>>
        /\ UNCHANGED <<detectVars, auxVars>>

FlagRead ==
    /\ flagOps' = Push(flagOps, Op("read", flag, flag, TRUE, CheckAIAttributionFlag(flag), FALSE))
    /\ UNCHANGED <<flag, flagBy, state, phase, cur, head, pre, post, db, confirmed>>
    /\ UNCHANGED <<detectVars, auxVars>>

FlagDelete ==
    \E unlinkOk \in BOOLEAN :
        LET cl == CleanupAIAttributionFlag(flag, unlinkOk)
        IN  /\ flag' = cl.flag
            /\ flagOps' = Push(flagOps, Op("delete", flag, cl.flag,
                                           ~flag.present \/ unlinkOk, FALSE, cl.threw))
            /\ UNCHANGED <<flagBy, state, phase, cur, head, pre, post, db, confirmed>>
            /\ UNCHANGED <<detectVars, auxVars>>

NextFlag ==
    \/ FlagWrite
    \/ FlagRead
    \/ FlagDelete

SpecFlag == InitDetect /\ [][NextFlag]_vars

----------------------------------------------------------------------------
(* The activity log file shared by several processes: SpecLog *)

(* cleanupOldActivities: the filter on the loaded entries *)
CleanupOldActivities(activities, now) ==
    SelectSeq(activities, LAMBDA a : (now - a.timestamp) < MaxAge)

Max(S) == CHOOSE x \in S : \A y \in S : y <= x

(* Date.now() as a logical clock: later than every entry recorded so far *)
LastStamp ==
    Max({0} \cup {log[i].timestamp : i \in 1..Len(log)}
            \cup completed
            \cup {procs[p].entry : p \in Procs})

LogFrame ==
    /\ UNCHANGED <<settings, config, patFresh, result, flagOps>>
    /\ UNCHANGED coordVars
    /\ UNCHANGED <<workspace, modeOps, written, purged, prox, pair>>

(* recordActivity up to the call of saveActivityLog: load, push, slice *)
LogRecordBegin(p) ==
    /\ procs[p].pc = "idle"
    /\ LastStamp < MaxEntries
    /\ LET activities == LoadActivityLog(log)
           newActivity == [ok |-> TRUE, file |-> "a.js", timestamp |-> LastStamp + 1,
                           command |-> "cursor.generate"]
       IN  procs' = [procs EXCEPT ![p] =
                       [pc |-> "loaded", op |-> "record", entry |-> newActivity.timestamp,
                        old |-> activities,
                        buf |-> KeepLast(Append(activities, newActivity), LogCap)]]
    /\ UNCHANGED <<log, completed, lastRead>>
    /\ LogFrame

(* cleanupOldActivities up to the call of saveActivityLog: load, filter *)
LogCleanupBegin(p) ==
    /\ procs[p].pc = "idle"
    /\ LET activities == LoadActivityLog(log)
       IN  procs' = [procs EXCEPT ![p] =
                       [pc |-> "loaded", op |-> "cleanup", entry |-> 0,
                        old |-> activities,
                        buf |-> CleanupOldActivities(activities, LastStamp)]]
    /\ UNCHANGED <<log, completed, lastRead>>
    /\ LogFrame

(* saveActivityLog: fs.writeFileSync opens the log itself for writing,      *)
(* which empties it; a failure is caught and logged                        *)
LogTruncate(p) ==
    /\ procs[p].pc = "loaded"
    /\ \E openOk \in BOOLEAN :
         IF openOk
         THEN /\ log' = <<>>
              /\ procs' = [procs EXCEPT ![p].pc = "truncated", ![p].old = log]
         ELSE /\ procs' = [procs EXCEPT ![p] = NoProc]
              /\ UNCHANGED log
    /\ UNCHANGED <<completed, lastRead>>
    /\ LogFrame

(* saveActivityLog: the serialized entries are written into the opened     *)
(* file; for a process that has the file open too, this is now the content *)
(* its own write will replace                                              *)
LogWrite(p) ==
    /\ procs[p].pc = "truncated"
    /\ log' = procs[p].buf
    /\ completed' = IF procs[p].op = "record"
                    THEN completed \cup {procs[p].entry} ELSE completed
    /\ procs' = [q \in Procs |->
                   IF q = p THEN NoProc
                   ELSE IF procs[q].pc = "truncated"
                        THEN [procs[q] EXCEPT !.old = procs[p].buf]
                        ELSE procs[q]]
    /\ UNCHANGED lastRead
    /\ LogFrame

(* the complete entry lists around the rewrites in progress *)
Whole ==
    LET rewriting == {p \in Procs : procs[p].pc = "truncated"}
    IN  IF rewriting = {} THEN {log}
        ELSE {procs[p].old : p \in rewriting} \cup {procs[p].buf : p \in rewriting}

(* the hook script's checkTimeProximity reads and parses the whole file *)
HookRead ==
    /\ lastRead' = [seen |-> LoadActivityLog(log), whole |-> Whole,
                    rewriting |-> \E p \in Procs : procs[p].pc = "truncated"]
    /\ UNCHANGED <<log, procs, completed>>
    /\ LogFrame

NextLog ==
    \/ \E p \in Procs : LogRecordBegin(p)
    \/ \E p \in Procs : LogCleanupBegin(p)
    \/ \E p \in Procs : LogTruncate(p)
    \/ \E p \in Procs : LogWrite(p)
    \/ HookRead

SpecLog == InitDetect /\ [][NextLog]_vars

(* a line that is not JSON gets into the file (torn write, manual edit) *)
MalformedLine == [ok |-> FALSE, file |-> "none", timestamp |-> 0, command |-> "none"]

ForeignLine ==
    /\ \A i \in 1..Len(log) : log[i].ok
    /\ \E i \in 0..Len(log) :
         log' = SubSeq(log, 1, i) \o <<MalformedLine>> \o SubSeq(log, i + 1, Len(log))
    /\ UNCHANGED <<procs, completed, lastRead>>
    /\ LogFrame

(* one process and the foreign writer *)
NextLogDirty ==
    \/ LogRecordBegin(1)
    \/ LogCleanupBegin(1)
    \/ LogTruncate(1)
    \/ LogWrite(1)
    \/ ForeignLine

SpecLogDirty == InitDetect /\ [][NextLogDirty]_vars

----------------------------------------------------------------------------
(* One process recording and cleaning up over a long time: SpecLogCap *)

(* Date.now(): it advances by one with every recorded entry, a day may     *)
(* pass at any moment, and it never goes back                              *)
CapEpochs == {0, MaxAge}

CapClock ==
    {e + Len(written) : e \in
        {d \in CapEpochs :
            /\ d + Len(written) >= LastTimestamp(written)
            /\ purged >= 0 => d + Len(written) >= purged + MaxAge}}

CapFrame ==
    /\ UNCHANGED <<settings, config, patFresh, result, flagOps>>
    /\ UNCHANGED coordVars
    /\ UNCHANGED <<workspace, modeOps, procs, completed, lastRead, prox, pair>>

(* recordActivity, the save succeeding *)
CapRecord ==
    \E now \in CapClock :
        LET newActivity == [ok |-> TRUE, file |-> "a.js", timestamp |-> now + 1,
                            command |-> "cursor.generate"]
        IN  /\ Len(written) < MaxRecords
            /\ log' = KeepLast(Append(LoadActivityLog(log), newActivity), LogCap)
            /\ written' = Append(written, newActivity)
            /\ UNCHANGED purged
            /\ CapFrame

(* cleanupOldActivities, the save succeeding; purged is the timestamp of    *)
(* the newest recorded entry that has reached maxAge at a cleanup          *)
CapCleanup ==
    \E now \in CapClock :
        /\ log' = CleanupOldActivities(LoadActivityLog(log), now)
        /\ purged' = Max({purged} \cup
                         {written[i].timestamp : i \in
                            {j \in 1..Len(written) : (now - written[j].timestamp) >= MaxAge}})
        /\ UNCHANGED written
        /\ CapFrame

NextLogCap ==
    \/ CapRecord
    \/ CapCleanup

SpecLogCap == InitDetect /\ [][NextLogCap]_vars

----------------------------------------------------------------------------
(* analyzeTimeProximity over bounded logs: SpecProx *)

ProxStamps == {0, 4000}

ProxNow == {0, 999, 1000, 2999, 3000, 4000, 4999, 5000, 6999, 7000, 9000}

ProxEntries == [ok : {TRUE}, file : Files, timestamp : ProxStamps, command : Commands]

(* well-formed logs as recordActivity leaves them: in recording order *)
ProxLogs ==
    {l \in UNION {[1..n -> ProxEntries] : n \in 0..MaxProxLog} :
        \A i \in 1..(Len(l) - 1) : l[i].timestamp <= l[i + 1].timestamp}

InitProx ==
    /\ settings = DefaultSettings
    /\ config = UpdateConfig(DefaultSettings)
    /\ log \in ProxLogs
    /\ patFresh = [ed |-> TRUE, git |-> TRUE]
    /\ result = NoResult
    /\ InitCoord
    /\ flagOps = <<>>
    /\ InitAux

ProxAnalyze ==
    \E f \in Files, now \in ProxNow :
        /\ now >= LastTimestamp(log)
        /\ prox' = [file |-> f, now |-> now, entries |-> log,
                    score |-> AnalyzeTimeProximity(f, log, now)]
        /\ UNCHANGED <<detectVars, flagOps>>
        /\ UNCHANGED coordVars
        /\ UNCHANGED <<workspace, modeOps, procs, completed, lastRead, written, purged, pair>>

NextProx == ProxAnalyze

SpecProx == InitProx /\ [][NextProx]_vars

----------------------------------------------------------------------------
(* Detection calls compared on the same input: SpecPair *)

(* Date.now() at the calls: half a second and five and a half seconds      *)
(* after the entries of the log                                            *)
PairNow == {4500, 9500}

PairEntries == [ok : {TRUE}, file : Files, timestamp : {4000}, command : Commands]

PairLogs == UNION {[1..n -> PairEntries] : n \in 0..MaxLog}

InitPair ==
    /\ settings \in {st \in Settings : st.confidenceThreshold = DefaultThreshold
                                       /\ st.enablePatternMatching}
    /\ config = UpdateConfig(settings)
    /\ log \in PairLogs
    /\ patFresh = [ed |-> TRUE, git |-> TRUE]
    /\ result = NoResult
    /\ InitCoord
    /\ flagOps = <<>>
    /\ InitAux

Pair(kind, left, right, input) ==
    [kind |-> kind, left |-> left, right |-> right, input |-> input]

Input(text, hits, file, lines, now, broken) ==
    [text |-> text, hits |-> hits, file |-> file, lines |-> lines, now |-> now,
     broken |-> broken, changes |-> <<>>, allHits |-> <<>>]

PairFrame ==
    /\ UNCHANGED <<settings, config, log, result, flagOps>>
    /\ UNCHANGED coordVars
    /\ UNCHANGED <<workspace, modeOps, procs, completed, lastRead, written, purged, prox>>

(* the same staged text, path, log and time given to the editor-side       *)
(* pre-commit analysis and to the standalone script                        *)
PairHookAndScript ==
    \E text \in Texts, f \in Files, t \in PairNow :
        \E hits \in PatternHits(patFresh.git, text) :
            /\ pair' = Pair("hookAndScript",
                            GitDetectAIInText(text, hits, f, log, t),
                            ScriptDetectAIInText(text, f, log, t),
                            Input(text, hits, f, log, t, FALSE))
            /\ patFresh' = [patFresh EXCEPT !.git = (hits = 0)]
            /\ PairFrame

(* detectAI on a log that holds a line JSON.parse rejects, next to the     *)
(* same call on an empty log                                               *)
PairDegraded ==
    \E text \in Texts, f \in Files, t \in PairNow, broken \in BOOLEAN :
        \E hits \in PatternHits(patFresh.ed, text) :
            LET lines == IF broken THEN Append(log, MalformedLine) ELSE log
                used == IF Analysed(text) THEN hits ELSE 0
            IN  /\ pair' = Pair("degraded",
                                DetectAI(<<text>>, <<used>>, f, config, lines, t),
                                DetectAI(<<text>>, <<used>>, f, config,
                                         IF broken THEN <<>> ELSE log, t),
                                Input(text, used, f, log, t, broken))
                /\ patFresh' = [patFresh EXCEPT !.ed =
                                   IF Analysed(text) THEN hits = 0 ELSE patFresh.ed]
                /\ PairFrame

(* fragments of 50 and of 100 characters in which no analyzer pattern      *)
(* occurs                                                                  *)
ShortTexts == {Txt(50, {}, FALSE, {}, {}, {}), Txt(100, {}, FALSE, {}, {}, {})}

(* a short plain fragment typed in the editor (detectAI) and the same      *)
(* fragment staged (GitAnalysisService.detectAIInText); no pattern         *)
(* matches, which leaves every regex at lastIndex 0                        *)
PairShortText ==
    \E text \in ShortTexts, f \in Files, t \in PairNow :
        /\ pair' = Pair("shortText",
                        DetectAI(<<text>>, <<0>>, f, config, log, t),
                        GitDetectAIInText(text, 0, f, log, t),
                        Input(text, 0, f, log, t, FALSE))
        /\ patFresh' = [ed |-> IF Analysed(text) THEN TRUE ELSE patFresh.ed,
                        git |-> TRUE]
        /\ PairFrame

(* with detection.enableTimeProximity off: the same text and path          *)
(* analysed over the log and over an empty log, by detectAI and by the     *)
(* pre-commit analysis of a staged file                                    *)
PairNoProximity ==
    /\ ~settings.enableTimeProximity
    /\ \E text \in Texts, f \in Files, t \in PairNow, engine \in {"ed", "git"} :
         \E hits \in PatternHits(patFresh[engine], text) :
            LET used == IF engine = "ed" /\ ~Analysed(text) THEN 0 ELSE hits
            IN  /\ pair' = IF engine = "ed"
                           THEN Pair("noProximity",
                                     DetectAI(<<text>>, <<used>>, f, config, log, t),
                                     DetectAI(<<text>>, <<used>>, f, config, <<>>, t),
                                     Input(text, used, f, log, t, FALSE))
                           ELSE Pair("noProximity",
                                     GitDetectAIInText(text, used, f, log, t),
                                     GitDetectAIInText(text, used, f, <<>>, t),
                                     Input(text, used, f, log, t, FALSE))
                /\ patFresh' = IF engine = "ed" /\ ~Analysed(text) THEN patFresh
                               ELSE [patFresh EXCEPT ![engine] = (hits = 0)]
                /\ PairFrame

NextPair ==
    \/ PairHookAndScript
    \/ PairDegraded
    \/ PairShortText
    \/ PairNoProximity

SpecPair == InitPair /\ [][NextPair]_vars

----------------------------------------------------------------------------
(* detectAI on document-change events of several content changes: SpecEvent *)

(* a plain 50-character fragment, the 201-character fragment and the       *)
(* 501-character fragment                                                  *)
EventTexts ==
    {text \in ShortTexts \cup Texts : text.len \in {50, 201, 501}}

EventChanges == UNION {[1..n -> EventTexts] : n \in 0..MaxChanges}

InitEvent ==
    /\ settings = DefaultSettings
    /\ config = UpdateConfig(DefaultSettings)
    /\ log \in PairLogs
    /\ patFresh = [ed |-> TRUE, git |-> TRUE]
    /\ result = NoResult
    /\ InitCoord
    /\ flagOps = <<>>
    /\ InitAux

(* the event made of the analysed changes only *)
AnalysedOnly(seq, changes) ==
    LET RECURSIVE Keep(_)
        Keep(i) == IF i > Len(changes) THEN <<>>
                   ELSE (IF Analysed(changes[i]) THEN <<seq[i]>> ELSE <<>>) \o Keep(i + 1)
    IN  Keep(1)

(* one onDidChangeTextDocument event given to detectAI, next to the event   *)
(* that holds only its changes of at least chunkSizeThreshold characters   *)
PairEvent ==
    \E changes \in EventChanges, f \in Files, t \in PairNow :
        \E hits \in HitsAllowed(patFresh.ed, changes, config) :
            /\ pair' = Pair("event",
                            DetectAI(changes, hits, f, config, log, t),
                            DetectAI(AnalysedOnly(changes, changes),
                                     AnalysedOnly(hits, changes), f, config, log, t),
                            [Input(NoText, 0, f, log, t, FALSE) EXCEPT
                                !.changes = changes, !.allHits = hits])
            /\ patFresh' = [patFresh EXCEPT !.ed = FreshAfter(patFresh.ed, changes, hits, config)]
            /\ PairFrame

NextEvent == PairEvent

SpecEvent == InitEvent /\ [][NextEvent]_vars

----------------------------------------------------------------------------
(* The two detection modes of the editor state on their own: SpecMode *)

(* RealtimeDetectionCommand.execute: the updater passed to updateState *)
RealtimeDetectionCommand(st) ==
    [enableRealtimeDetection |-> TRUE, isAiGenerated |-> FALSE]

(* DocumentChangeManager.handleDocumentChange: ignored in manual mode; in   *)
(* continuous mode a positive detection sets isAiGenerated                 *)
HandleDocumentChange(st, detected) ==
    IF ~st.enableRealtimeDetection THEN st
    ELSE IF detected THEN [st EXCEPT !.isAiGenerated = TRUE]
    ELSE st

(* showDetectionNotification, choice 'manual' *)
SwitchToManual(st) == [st EXCEPT !.enableRealtimeDetection = FALSE]

ModeOp(name, before, after, notice) ==
    [op |-> name, before |-> before, after |-> after, notice |-> notice]

(* a detection notification is still open *)
NoticeOpen == modeOps # <<>> /\ modeOps[Len(modeOps)].notice

ModeStep(name, after, notice) ==
    /\ state' = after
    /\ modeOps' = Push(modeOps, ModeOp(name, state, after, notice))
    /\ UNCHANGED <<flag, flagBy, phase, cur, head, pre, post, db, confirmed>>
    /\ UNCHANGED <<workspace, procs, completed, lastRead, written, purged, prox, pair>>
    /\ UNCHANGED <<detectVars, flagOps>>

ModeToggle == ModeStep("toggle", AIToggleCommand(state), NoticeOpen)

ModeEnableRealtime ==
    ModeStep("enableRealtime", RealtimeDetectionCommand(state), NoticeOpen)

ModeDocumentChange ==
    \E detected \in BOOLEAN :
        ModeStep("documentChange", HandleDocumentChange(state, detected),
                 NoticeOpen \/ (state.enableRealtimeDetection /\ detected))

ModeNoticeManual ==
    /\ NoticeOpen
    /\ ModeStep("manual", SwitchToManual(state), FALSE)

(* ProcessCommitCommand.execute after a processCommit that returned *)
ModeProcessCommit ==
    ModeStep("processCommit", OverrideAfter(state, FALSE), NoticeOpen)

NextMode ==
    \/ ModeToggle
    \/ ModeEnableRealtime
    \/ ModeDocumentChange
    \/ ModeNoticeManual
    \/ ModeProcessCommit

SpecMode == InitDetect /\ [][NextMode]_vars

----------------------------------------------------------------------------
(* C1: every detection result (AIDetectionService.detectAI,                *)
(* GitAnalysisService.detectAIInText, the hook script's detectAIInText)    *)
(* has 0 <= confidence <= 100, also when the sub-scores sum to more than   *)
(* 100.                                                                    *)
C1_ConfidenceInRange ==
    /\ result.confidence >= 0
    /\ result.confidence <= 100
    /\ result.overflow => result.confidence = 100

C1_Witness ==
    /\ result.engine = "detectAI"
    /\ result.overflow
    /\ result.confidence = 100

(* C2: detectAI classifies a result as AI-generated exactly when its       *)
(* clamped confidence is at least the threshold configured at the time of  *)
(* the call; with the default threshold, 70 points are AI-generated.       *)
C2_ClassifiedByConfiguredThreshold ==
    result.engine = "detectAI" =>
        (result.isAiGenerated <=> result.confidence >= settings.confidenceThreshold)

C2_Witness ==
    /\ result.engine = "detectAI"
    /\ settings.confidenceThreshold = DefaultThreshold
    /\ result.confidence = 70
    /\ result.isAiGenerated

(* C3: a processCommit run that starts with the flag present hands the     *)
(* commit to the recorder with is_ai_generated = true and returns with the *)
(* flag absent, whatever the outcome of its steps.                         *)
C3_FlagFoldedAndCleared ==
    \A p \in Attempts :
        (post[p].pc = "done" /\ post[p].flagAtStart) =>
            /\ post[p].outcome = "recorded"
            /\ post[p].handedAi
            /\ ~post[p].flagAtReturn

(* C4: a commit is recorded as AI-generated through the flag only if its   *)
(* own pre-commit prompt was answered yes, and no confirmation marks more  *)
(* than one commit.                                                        *)
C4_FlagConsumedOnce ==
    /\ \A r \in db : r.viaFlag => r.commit_hash \in confirmed
    /\ \A r1, r2 \in db : (r1.viaFlag /\ r2.viaFlag /\ r1.by = r2.by) => r1 = r2

(* C5: after a "no" (or a dismissed prompt) no flag file is present when   *)
(* the pre-commit phase ends.                                              *)
C5_NoLeavesNoFlag ==
    (pre.pc = "done" /\ pre.answer \in {"no", "dismissed"}) => ~pre.flagAtEnd

(* C6: write, read, delete leaves no flag; deleting an absent flag raises  *)
(* no error and leaves it absent; a second write before consumption only   *)
(* changes the stored timestamp, and one later deletion clears the flag.   *)
C6_FlagLifecycle ==
    /\ \A i \in 1..Len(flagOps) :
          /\ flagOps[i].op = "delete" => ~flagOps[i].threw
          /\ (flagOps[i].op = "delete" /\ ~flagOps[i].before.present) =>
                ~flagOps[i].after.present
          /\ (flagOps[i].op = "delete" /\ flagOps[i].ok) => ~flagOps[i].after.present
          /\ (flagOps[i].op = "write" /\ flagOps[i].ok) =>
                /\ flagOps[i].after.present
                /\ flagOps[i].after.content >= flagOps[i].before.content
          /\ flagOps[i].op = "read" => flagOps[i].seen = flagOps[i].before.present
    /\ (/\ Len(flagOps) = 3
        /\ flagOps[1].op = "write" /\ flagOps[1].ok
        /\ flagOps[2].op \in {"read", "write"} /\ flagOps[2].ok
        /\ flagOps[3].op = "delete" /\ flagOps[3].ok)
       => (~flag.present /\ (flagOps[2].op = "read" => flagOps[2].seen))

C6_Witness ==
    /\ Len(flagOps) = 3
    /\ flagOps[1].op = "write" /\ flagOps[1].ok
    /\ flagOps[2].op = "read" /\ flagOps[2].seen
    /\ flagOps[3].op = "delete" /\ flagOps[3].ok
    /\ ~flag.present

(* C7: of two overlapping processCommit runs at most one observes a given  *)
(* flag and records its commit as AI-generated because of it, and neither  *)
(* fails on the deletion.                                                  *)
C7_CheckAndConsumeAtomic ==
    /\ \A p, q \in Attempts :
          (/\ p # q
           /\ post[p].outcome = "recorded" /\ post[p].should
           /\ post[q].outcome = "recorded" /\ post[q].should)
          => post[p].sawBy # post[q].sawBy
    /\ \A p \in Attempts : ~post[p].threw

(* C8: the editor-side pre-commit phase prompts exactly when some staged   *)
(* file's confidence reaches the configured threshold; otherwise no prompt *)
(* is shown and no flag is written.                                        *)
C8_PromptIffConfiguredThreshold ==
    (pre.path = "editor" /\ pre.pc \in {"prompt", "done"}) =>
        /\ pre.prompted <=> pre.reached
        /\ ~pre.reached => (pre.answer = "none" /\ pre.flagAtEnd = pre.flagAtStart)

(* C9: the pre-commit hook exits with status 0 in every case.              *)
C9_PreCommitExitsZero ==
    pre.pc = "done" => pre.exit = 0

(* C10: processCommit and ProcessCommitCommand.execute never propagate an  *)
(* error, whichever step fails.                                            *)
C10_PostCommitNeverThrows ==
    \A p \in Attempts : ~post[p].threw /\ ~post[p].execThrew

C10_Witness ==
    \E p \in Attempts : post[p].pc = "done" /\ post[p].outcome = "logged"

(* C11: when the flag file cannot be written after a "yes", the user is    *)
(* told of a failure, never "attribution set", and the flag is as it was.  *)
C11_FailedWriteReported ==
    (pre.pc = "done" /\ pre.wrote = "failed") =>
        /\ pre.message \in {"commitCheckFailed", "scriptError"}
        /\ pre.flagAtEnd = pre.flagAtStart

(* C12: after every execution of the processCommit command, recorded or    *)
(* not, the manual override state.isAiGenerated is false.                  *)
C12_OverrideResetAfterCommit ==
    \A p \in Attempts : post[p].pc = "done" => ~post[p].overrideAfter

(* C13: enabling continuous mode always yields enableRealtimeDetection =   *)
(* true with isAiGenerated = false, and the manual toggle used in          *)
(* continuous mode leaves that mode with isAiGenerated = false.            *)
C13_ModesExclusive ==
    \A i \in 1..Len(modeOps) :
        /\ modeOps[i].op = "enableRealtime" =>
              (modeOps[i].after.enableRealtimeDetection /\ ~modeOps[i].after.isAiGenerated)
        /\ (modeOps[i].op = "toggle" /\ modeOps[i].before.enableRealtimeDetection) =>
              (~modeOps[i].after.enableRealtimeDetection /\ ~modeOps[i].after.isAiGenerated)

C13_Witness ==
    /\ Len(modeOps) = 3
    /\ modeOps[1].op = "enableRealtime" /\ modeOps[1].before.isAiGenerated
    /\ modeOps[2].op = "documentChange" /\ modeOps[2].after.isAiGenerated
    /\ modeOps[3].op = "toggle"
    /\ state = [enableRealtimeDetection |-> FALSE, isAiGenerated |-> FALSE]

(* C14: a commit processed while the manual override is on is recorded     *)
(* with is_ai_generated = true, whatever the detection said and whether    *)
(* or not the flag file is present.                                        *)
C14_OverrideRecorded ==
    \A p \in Attempts :
        (post[p].pc = "done" /\ post[p].outcome = "recorded" /\ post[p].isAiGenerated) =>
            /\ post[p].handedAi
            /\ \E r \in db : r.commit_hash = post[p].hash /\ r.is_ai_generated

C14_Witness ==
    \E p \in Attempts :
        /\ post[p].pc = "done" /\ post[p].outcome = "recorded"
        /\ post[p].isAiGenerated /\ ~post[p].should
        /\ \E r \in db : r.commit_hash = post[p].hash /\ r.is_ai_generated

(* C15: reading the log yields the valid entries in their order; a         *)
(* malformed line in the file is skipped on its own and no valid entry is  *)
(* lost.                                                                   *)
C15_MalformedLinesSkipped ==
    LoadActivityLog(log) = SelectSeq(log, LAMBDA l : l.ok)

(* C16: an entry whose recordActivity has completed is in the log once     *)
(* the concurrent operations of the other process have completed too.      *)
C16_RecordedEntryNotLost ==
    (\A p \in Procs : procs[p].pc = "idle") =>
        \A e \in completed : \E i \in 1..Len(log) : log[i].timestamp = e

(* C17: a read made while the log is being rewritten returns the complete  *)
(* entry list from before the rewrite or the complete list from after it.  *)
C17_ReadSeesCompleteLog ==
    lastRead.rewriting => lastRead.seen \in lastRead.whole

(* C18: starting from an empty log, after any sequence of recordActivity   *)
(* and cleanupOldActivities the log holds at most 100 entries: the most    *)
(* recently recorded entries that were not purged, in the order they were  *)
(* recorded, with non-decreasing timestamps.                               *)
C18_LogCappedAndOrdered ==
    /\ Len(log) <= 100
    /\ log = KeepLast(SelectSeq(written, LAMBDA a : a.timestamp > purged), 100)
    /\ \A i \in 1..(Len(log) - 1) : log[i].timestamp <= log[i + 1].timestamp

C18_Witness ==
    /\ Len(written) > 100
    /\ written[1].timestamp < MaxAge
    /\ purged >= written[1].timestamp
    /\ Len(log) = 100
    /\ log[100] = written[Len(written)]

(* C19: the proximity score follows the age of an entry for the same file: *)
(* under 1000 ms gives 50, from 1000 to under 3000 gives 40, from 3000 to  *)
(* under 5000 gives 30, and 5000 or more, or no entry for the file, gives  *)
(* 0; entries for other files never contribute.                            *)
C19_ProximityTiers ==
    prox.file # "none" =>
        LET ages == {prox.now - prox.entries[i].timestamp :
                        i \in {j \in 1..Len(prox.entries) :
                                  prox.entries[j].file = prox.file}}
        IN  /\ prox.score \in {0, 30, 40, 50}
            /\ prox.score = 0 <=> (\A a \in ages : a >= 5000)
            /\ prox.score = 50 => \E a \in ages : a < 1000
            /\ prox.score = 40 => \E a \in ages : 1000 <= a /\ a < 3000
            /\ prox.score = 30 => \E a \in ages : 3000 <= a /\ a < 5000
            /\ (ages # {} /\ \A a \in ages : 1000 <= a /\ a < 3000) => prox.score = 40

C19_Witness ==
    /\ prox.file = "a.js" /\ prox.now = 4999 /\ prox.score = 30
    /\ Len(prox.entries) = 2
    /\ prox.entries[1].file = "a.js" /\ prox.entries[1].timestamp = 0
    /\ prox.entries[2].file = "b.txt" /\ prox.entries[2].timestamp = 4000

(* C20: handing the recorder a commit hash it already holds is a no-op:    *)
(* no error, one stored record for the hash, and the flag cleanup of the   *)
(* post-commit step still happens.                                         *)
C20_DuplicateHashIsNoOp ==
    \A p \in Attempts :
        (post[p].pc = "done" /\ post[p].dup) =>
            /\ post[p].outcome # "logged"
            /\ post[p].should => ~post[p].flagAtReturn

(* C21: on the same added text, file path and activity log the standalone  *)
(* script's detectAIInText and GitAnalysisService.detectAIInText return    *)
(* the same confidence and the same isAiGenerated.                         *)
C21_ScriptMatchesEditorAnalysis ==
    pair.kind = "hookAndScript" =>
        /\ pair.left.confidence = pair.right.confidence
        /\ pair.left.isAiGenerated = pair.right.isAiGenerated

C23_PromptEndsWithDecision ==
    (pre.path = "editor" /\ pre.pc = "prompt") ~> (pre.pc = "done")

(* C24: for an added text of at most 100 characters without structural     *)
(* tokens the confidence is the time-proximity score alone, and a          *)
(* proximity match for the file is still counted.                          *)
C24_ShortTextScoresProximityOnly ==
    (pair.kind = "shortText" /\ config.enableTimeProximity) =>
        LET proximity ==
                AnalyzeTimeProximity(pair.input.file, pair.input.lines, pair.input.now)
        IN  /\ pair.left.confidence = proximity
            /\ pair.right.confidence = proximity

(* C25: with the time-proximity signal disabled the detection result does  *)
(* not depend on the activity log, in detectAI and in the pre-commit       *)
(* analysis of staged files.                                               *)
C25_DisabledProximityIgnoresLog ==
    pair.kind = "noProximity" =>
        /\ pair.left.confidence = pair.right.confidence
        /\ pair.left.isAiGenerated = pair.right.isAiGenerated

(* C26: after every transition that changes enableRealtimeDetection        *)
(* (enabling continuous mode, toggling out of it, choosing manual mode in  *)
(* the detection notification) isAiGenerated is false.                     *)
C26_OverrideResetOnModeSwitch ==
    \A i \in 1..Len(modeOps) :
        modeOps[i].before.enableRealtimeDetection # modeOps[i].after.enableRealtimeDetection
            => ~modeOps[i].after.isAiGenerated

(* C27: when several entries for the file lie inside the 5-second window,  *)
(* the score is the tier of the first of them in file order (the oldest),  *)
(* even when a later entry would score higher.                             *)
C27_FirstEntryInWindowWins ==
    prox.file # "none" =>
        LET idx == {i \in 1..Len(prox.entries) :
                       /\ prox.entries[i].file = prox.file
                       /\ prox.now - prox.entries[i].timestamp < 5000}
        IN  \A i \in idx :
                (\A j \in idx : i <= j) =>
                    LET age == prox.now - prox.entries[i].timestamp
                    IN  prox.score = IF age < 1000 THEN 50
                                     ELSE IF age < 3000 THEN 40 ELSE 30

C27_Witness ==
    /\ prox.file = "a.js" /\ prox.now = 4000 /\ prox.score = 30
    /\ Len(prox.entries) = 2
    /\ prox.entries[1].file = "a.js" /\ prox.entries[1].timestamp = 0
    /\ prox.entries[2].file = "a.js" /\ prox.entries[2].timestamp = 4000

(* C28: detectAI scores an event as the clamped sum of the scores of the   *)
(* changes of at least 100 characters; shorter changes contribute nothing, *)
(* not even time proximity, so an event of short changes only has          *)
(* confidence 0, and two changes below the threshold can together classify *)
(* the event as AI-generated.                                              *)
C28_EventIsSumOfLongChanges ==
    pair.kind = "event" =>
        LET in == pair.input
            long == {i \in 1..Len(in.changes) : in.changes[i].len >= 100}
            Score(i) == AnalyzeTextChange(in.changes[i], in.allHits[i], in.file,
                                          config, in.lines, in.now)
        IN  /\ pair.left = pair.right
            /\ long = {} => pair.left.confidence = 0
            /\ \A i \in long :
                  long = {i} => pair.left.confidence = Min(Score(i), 100)
            /\ \A i, j \in long :
                  (i < j /\ long = {i, j}) =>
                      /\ pair.left.confidence = Min(Score(i) + Score(j), 100)
                      /\ pair.left.isAiGenerated = (Min(Score(i) + Score(j), 100) >= config.confidenceThreshold)

C28_Witness ==
    /\ pair.kind = "event"
    /\ Len(pair.input.changes) = 2
    /\ pair.input.changes[1].len = 201 /\ pair.input.changes[2].len = 201
    /\ pair.input.lines = <<>>
    /\ pair.left.confidence = 70 /\ pair.left.isAiGenerated

(* C29: a run of the fallback script that finds the flag file deletes it   *)
(* and returns without analysing or prompting; after any run of the script *)
(* the flag is present only if that run prompted and was answered yes.     *)
C29_ScriptClearsLeftoverFlag ==
    (pre.path = "script" /\ pre.pc = "done") =>
        /\ pre.flagAtStart => (~pre.prompted /\ ~pre.flagAtEnd)
        /\ pre.flagAtEnd => (pre.prompted /\ pre.answer = "yes")

(* C30: execute reads the override once before the asynchronous commit     *)
(* processing and sets it to false afterwards: an isAiGenerated = true set *)
(* while processCommit is awaiting is not applied to the commit being      *)
(* processed and is not kept for the next one.                             *)
C30_OverrideSetWhileAwaitingIsDropped ==
    \A p \in Attempts :
        (post[p].pc = "done" /\ post[p].setDuring) =>
            /\ ~post[p].overrideAfter
            /\ post[p].outcome = "recorded" =>
                  /\ post[p].handedAi = post[p].should
                  /\ \E r \in db : /\ r.commit_hash = post[p].hash
                                     /\ r.is_ai_generated = post[p].should

C30_Witness ==
    \E p \in Attempts :
        /\ post[p].pc = "done" /\ post[p].setDuring
        /\ post[p].outcome = "recorded" /\ ~post[p].should
        /\ ~post[p].handedAi
        /\ ~state.isAiGenerated

====
